---- MODULE Spec2Model ----
(***************************************************************************)
(* Model of song_splitter.py: main() builds a Downloader, downloads the    *)
(* audio stream of a video, then a Splitter scrapes the time links of the  *)
(* video page and cuts the audio file into clip<i>.mp3 files.              *)
(*                                                                         *)
(* Strings that the program only stores and compares are TLA+ strings.     *)
(* A time link, which the program takes apart, is a sequence of one-       *)
(* character strings: "2:30" is <<"2", ":", "3", "0">>.                    *)
(*                                                                         *)
(* The working directory outlives a process.  The content of a file is     *)
(* modelled by who wrote it: the running process ("current") or an        *)
(* earlier one ("prior"), and whether the writer finished it.              *)
(***************************************************************************)
EXTENDS Integers, Sequences, FiniteSets, TLC

VARIABLES
    pc,          \* position of main(): see PcValues
    url,         \* Downloader.url
    filename,    \* Downloader.filename
    file_size,   \* Downloader.file_size
    chunks,      \* chunks the stream has still to deliver to download()
    remaining,   \* bytes_remaining handed to the progress callback
    caught,      \* exception swallowed by download_file's bare except
    s_url,       \* Splitter.url
    s_filename,  \* Splitter.filename
    audio,       \* the AudioFileClip of split_songs
    fetch,       \* outcome of urlopen in __get_time_links
    times,       \* the local `times` of split_songs
    i,           \* the loop index i of split_songs
    written,     \* the write_audiofile calls of this process, in order
    error,       \* exception that ended the process, "none" if none
    disk,        \* the working directory: file name -> content
    time_str,    \* argument of __time_str_to_tuple (SpecParse)
    result       \* what __time_str_to_tuple did with it (SpecParse)

vars == <<pc, url, filename, file_size, chunks, remaining, caught, s_url,
          s_filename, audio, fetch, times, i, written, error, disk,
          time_str, result>>

pipevars == <<pc, url, filename, file_size, chunks, remaining, caught, s_url,
              s_filename, audio, fetch, times, i, written, error, disk>>

parsevars == <<time_str, result>>

---------------------------------------------------------------------------
(* Bounds of the model *)

\* longest list of time links a page carries
MaxMarkers == 3

\* largest stream size, and largest number of chunks, in one-byte chunks
MaxSize == 2

\* longest time string given to __time_str_to_tuple in SpecParse
MaxLen == 4

---------------------------------------------------------------------------
(* Input sets *)

Urls == {"https://youtu.be/x"}

Titles == {"Album"}

\* durations, in seconds, of the downloaded audio
Durations == {150, 4000}

\* the time links a page may carry
MarkerPool ==
    { <<"0", ":", "0", "0">>,
      <<"2", ":", "3", "0">>,
      <<"5", ":", "1", "5">>,
      <<"1", ":", "0", "2", ":", "1", "0">>,
      <<"a", "b", "c">>,
      <<"5">> }

RECURSIVE SeqsUpTo(_, _)
SeqsUpTo(S, n) ==
    IF n = 0 THEN { <<>> }
    ELSE LET shorter == SeqsUpTo(S, n - 1)
         IN  shorter \cup { Append(s, x) : s \in shorter, x \in S }

MarkerLists == SeqsUpTo(MarkerPool, MaxMarkers)

\* characters of the time strings SpecParse enumerates
ParseChars == {"0", "5", ":", "a", "-", " "}

\* the strings the documentation names, whatever their length
NamedTimeStrs ==
    { <<"3", ":", "4", "5">>,
      <<"1", ":", "0", "2", ":", "1", "0">>,
      <<"a", "b", "c">>,
      <<>>,
      <<"5">>,
      <<"1", ":", "2", ":", "3", ":", "4">> }

TimeStrs == SeqsUpTo(ParseChars, MaxLen) \cup NamedTimeStrs \cup MarkerPool

---------------------------------------------------------------------------
(* __time_str_to_tuple: tuple(map(int, time_str.split(":"))) *)

DigitChars == <<"0", "1", "2", "3", "4", "5", "6", "7", "8", "9">>

IsDigit(c) == \E k \in 1..10 : DigitChars[k] = c

DigitVal(c) == (CHOOSE k \in 1..10 : DigitChars[k] = c) - 1

\* str.split(":"): the fields between the colons; always at least one field
RECURSIVE Split(_)
Split(s) ==
    IF \A k \in 1..Len(s) : s[k] # ":"
    THEN << s >>
    ELSE LET p == CHOOSE k \in 1..Len(s) :
                      s[k] = ":" /\ \A j \in 1..(k - 1) : s[j] # ":"
         IN  << SubSeq(s, 1, p - 1) >> \o Split(SubSeq(s, p + 1, Len(s)))

\* int() ignores blanks around the number
RECURSIVE Strip(_)
Strip(s) ==
    IF s = <<>> THEN s
    ELSE IF s[1] = " " THEN Strip(Tail(s))
    ELSE IF s[Len(s)] = " " THEN Strip(SubSeq(s, 1, Len(s) - 1))
    ELSE s

\* int() accepts one sign before the digits
Unsigned(s) == IF s # <<>> /\ s[1] \in {"+", "-"} THEN Tail(s) ELSE s

\* whether int(field) returns; it raises ValueError otherwise
IntOk(field) ==
    LET d == Unsigned(Strip(field))
    IN  d # <<>> /\ \A k \in 1..Len(d) : IsDigit(d[k])

RECURSIVE Decimal(_)
Decimal(d) ==
    IF d = <<>> THEN 0
    ELSE 10 * Decimal(SubSeq(d, 1, Len(d) - 1)) + DigitVal(d[Len(d)])

\* int(field), for a field int() accepts
IntVal(field) ==
    LET t == Strip(field)
    IN  IF t[1] = "-" THEN 0 - Decimal(Unsigned(t)) ELSE Decimal(Unsigned(t))

\* ok = FALSE: ValueError raised; ok = TRUE: val is the tuple returned
TimeStrToTuple(str) ==
    LET fields == Split(str)
    IN  IF \A k \in 1..Len(fields) : IntOk(fields[k])
        THEN [ok |-> TRUE, val |-> [k \in 1..Len(fields) |-> IntVal(fields[k])]]
        ELSE [ok |-> FALSE, val |-> <<>>]

---------------------------------------------------------------------------
(* Values *)

PcValues ==
    {"start", "download_file", "download", "downloading", "splitter",
     "get_time_links", "loop", "done"}

\* Downloader.__init__ sets filename to one blank
BlankName == " "

Mp4Name(title) == title \o ".mp4"

\* the bug of numbering the clips from 0
ClipNameFromZero(i0) == "clip" \o ToString(i0) \o ".mp3"

\* "clip{}.mp3".format(i+1), i0 the loop index
ClipName(i0) == "clip" \o ToString(i0 + 1) \o ".mp3"

ClipNames == { ClipName(i0) : i0 \in 0..(MaxMarkers - 1) }

NoAudio == [loaded |-> FALSE, duration |-> 0]

\* `times` is a list, or None when __get_time_links fell off its except branch
NoneTimes == [none |-> TRUE, list |-> <<>>]

ListTimes(l) == [none |-> FALSE, list |-> l]

\* end_time is a tuple, or None for the last song
NoneEnd == [none |-> TRUE, t |-> <<>>]

TupleEnd(t) == [none |-> FALSE, t |-> t]

\* every name the program can put together within the bounds
FileNames == ClipNames \cup {BlankName} \cup { Mp4Name(t) : t \in Titles }

\* the content of a name that is no file of the directory
Absent == [by |-> "nobody", whole |-> FALSE]

Fresh(whole) == [by |-> "current", whole |-> whole]

Exists(d, name) == d[name] # Absent

\* a file found by a new process was written by an earlier one
Aged(d) ==
    [f \in DOMAIN d |->
        IF d[f] = Absent THEN Absent ELSE [d[f] EXCEPT !.by = "prior"]]

\* the bug of leaving a file that is already there as it is
WriteFileIfNew(d, name, content) ==
    IF Exists(d, name) THEN d ELSE [d EXCEPT ![name] = content]

\* open(name, "wb") and write_audiofile(name): create or replace the file
WriteFile(d, name, content) == [d EXCEPT ![name] = content]

---------------------------------------------------------------------------
(* Downloader *)

\* __progress_check: percent = (100 * (file_size - remaining)) / file_size
ProgressCheck(size, rem) ==
    IF size = 0
    THEN [raised |-> "ZeroDivisionError", percent |-> 0]
    ELSE [raised |-> "none", percent |-> (100 * (size - rem)) \div size]

\* main(): url = input(...); download = Downloader(url)
Main ==
    /\ pc = "start"
    /\ \E u \in Urls : url' = u
    /\ filename' = BlankName
    /\ file_size' = 0
    /\ pc' = "download_file"
    /\ UNCHANGED <<chunks, remaining, caught, s_url, s_filename, audio, fetch,
                   times, i, written, error, disk>>
    /\ UNCHANGED parsevars

\* download_file, the lines before audio_file.download()
Resolve ==
    /\ pc = "download_file"
    /\ \/ \* YouTube(url) raises: the video cannot be found
          /\ caught' = "VideoUnavailable"
          /\ pc' = "splitter"
          /\ UNCHANGED <<filename, file_size, chunks, remaining>>
       \/ \* no audio-only mp4 stream: first() is None, None.filesize raises
          /\ \E t \in Titles : filename' = Mp4Name(t)
          /\ caught' = "AttributeError"
          /\ pc' = "splitter"
          /\ UNCHANGED <<file_size, chunks, remaining>>
       \/ \* a stream is found
          /\ \E t \in Titles : filename' = Mp4Name(t)
          /\ \E size \in 0..MaxSize : file_size' = size /\ remaining' = size
          /\ \E n \in 0..MaxSize : chunks' = n
          /\ pc' = "download"
          /\ UNCHANGED caught
    /\ UNCHANGED <<url, s_url, s_filename, audio, fetch, times, i, written,
                   error, disk>>
    /\ UNCHANGED parsevars

\* audio_file.download() opens the target file for writing
DownloadOpen ==
    /\ pc = "download"
    /\ disk' = WriteFile(disk, filename, Fresh(FALSE))
    /\ pc' = "downloading"
    /\ UNCHANGED <<url, filename, file_size, chunks, remaining, caught, s_url,
                   s_filename, audio, fetch, times, i, written, error>>
    /\ UNCHANGED parsevars

\* download() receives a chunk, writes it and calls the progress callback
DownloadChunk ==
    /\ pc = "downloading"
    /\ chunks > 0
    /\ chunks' = chunks - 1
    /\ remaining' = remaining - 1
    /\ LET p == ProgressCheck(file_size, remaining')
       IN  IF p.raised = "none"
           THEN /\ pc' = "downloading"
                /\ UNCHANGED caught
           ELSE /\ pc' = "splitter"
                /\ caught' = p.raised
    /\ UNCHANGED <<url, filename, file_size, s_url, s_filename, audio, fetch,
                   times, i, written, error, disk>>
    /\ UNCHANGED parsevars

\* the transfer breaks: download() raises, the bare except swallows it
DownloadFail ==
    /\ pc = "downloading"
    /\ caught' = "TransferError"
    /\ pc' = "splitter"
    /\ UNCHANGED <<url, filename, file_size, chunks, remaining, s_url,
                   s_filename, audio, fetch, times, i, written, error, disk>>
    /\ UNCHANGED parsevars

\* the stream is exhausted: download() closes the file and returns
DownloadDone ==
    /\ pc = "downloading"
    /\ chunks = 0
    /\ disk' = WriteFile(disk, filename, Fresh(TRUE))
    /\ pc' = "splitter"
    /\ UNCHANGED <<url, filename, file_size, chunks, remaining, caught, s_url,
                   s_filename, audio, fetch, times, i, written, error>>
    /\ UNCHANGED parsevars

---------------------------------------------------------------------------
(* Splitter *)

\* the offset in seconds that subclip makes of a tuple: the last three
\* fields weigh 1, 60 and 3600
Cvsecs(t) ==
    LET n == Len(t)
    IN  (IF n >= 1 THEN t[n] ELSE 0)
        + (IF n >= 2 THEN 60 * t[n - 1] ELSE 0)
        + (IF n >= 3 THEN 3600 * t[n - 2] ELSE 0)

\* times[i0] of the Python list, whose first index is 0
At(ts, i0) == ts[i0 + 1]

\* start_time = self.__time_str_to_tuple(times[i])
StartTime(ts, i0) == TimeStrToTuple(At(ts, i0))

\* the bug of ending a song where it starts: times[i] for times[i + 1]
EndTimeSameLink(ts, i0) ==
    IF i0 = Len(ts) - 1
    THEN [ok |-> TRUE, val |-> NoneEnd]
    ELSE LET r == TimeStrToTuple(At(ts, i0))
         IN  [ok |-> r.ok, val |-> TupleEnd(r.val)]

\* the bug of leaving the end open: the next link is never converted
EndTimeOpen(ts, i0) == [ok |-> TRUE, val |-> NoneEnd]

\* end_time = None if i == (len(times) - 1)
\*            else self.__time_str_to_tuple(times[i + 1])
EndTime(ts, i0) ==
    IF i0 = Len(ts) - 1
    THEN [ok |-> TRUE, val |-> NoneEnd]
    ELSE LET r == TimeStrToTuple(At(ts, i0 + 1))
         IN  [ok |-> r.ok, val |-> TupleEnd(r.val)]

\* main(): splitter = Splitter(download); split_songs() opens the audio file
SplitSongs ==
    /\ pc = "splitter"
    /\ s_url' = url
    /\ s_filename' = filename
    /\ \/ \* the file cannot be read: AudioFileClip raises
          /\ ~Exists(disk, filename) \/ ~disk[filename].whole
          /\ error' = "IOError"
          /\ pc' = "done"
          /\ UNCHANGED audio
       \/ \* the file is there; a truncated one may still decode
          /\ Exists(disk, filename)
          /\ \E d \in Durations : audio' = [loaded |-> TRUE, duration |-> d]
          /\ pc' = "get_time_links"
          /\ UNCHANGED error
    /\ UNCHANGED <<url, filename, file_size, chunks, remaining, caught, fetch,
                   times, i, written, disk>>
    /\ UNCHANGED parsevars

\* times = self.__get_time_links()
GetTimeLinks ==
    /\ pc = "get_time_links"
    /\ \/ \* urlopen raises HTTPError: printed, the method returns None
          /\ fetch' = "HTTPError"
          /\ times' = NoneTimes
          /\ pc' = "loop"
          /\ UNCHANGED error
       \/ \* urlopen raises URLError, which is no HTTPError: not caught
          /\ fetch' = "URLError"
          /\ error' = "URLError"
          /\ pc' = "done"
          /\ UNCHANGED times
       \/ \* the page is read: the text of every <a href="#">
          /\ fetch' = "ok"
          /\ \E l \in MarkerLists : times' = ListTimes(l)
          /\ pc' = "loop"
          /\ UNCHANGED error
    /\ UNCHANGED <<url, filename, file_size, chunks, remaining, caught, s_url,
                   s_filename, audio, i, written, disk>>
    /\ UNCHANGED parsevars

\* for i in range(0, len(times)): one evaluation of the loop header and body
SplitLoop ==
    /\ pc = "loop"
    /\ \/ \* len(None)
          /\ times.none
          /\ error' = "TypeError"
          /\ pc' = "done"
          /\ UNCHANGED <<i, written, disk>>
       \/ \* the range is exhausted: split_songs and main return
          /\ ~times.none
          /\ i = Len(times.list)
          /\ pc' = "done"
          /\ UNCHANGED <<i, written, disk, error>>
       \/ \* one song
          /\ ~times.none
          /\ i < Len(times.list)
          /\ LET start == StartTime(times.list, i)
                 end   == EndTime(times.list, i)
             IN  IF start.ok /\ end.ok
                 THEN /\ disk' = WriteFile(disk, ClipName(i), Fresh(TRUE))
                      /\ written' = Append(written,
                                           [name  |-> ClipName(i),
                                            start |-> start.val,
                                            end   |-> end.val])
                      /\ i' = i + 1
                      /\ UNCHANGED <<pc, error>>
                 ELSE /\ error' = "ValueError"
                      /\ pc' = "done"
                      /\ UNCHANGED <<i, written, disk>>
    /\ UNCHANGED <<url, filename, file_size, chunks, remaining, caught, s_url,
                   s_filename, audio, fetch, times>>
    /\ UNCHANGED parsevars

---------------------------------------------------------------------------
(* The process, and the next one in the same working directory *)

\* nothing is constructed before main() runs
Fields ==
    /\ pc = "start"
    /\ url = ""
    /\ filename = ""
    /\ file_size = 0
    /\ chunks = 0
    /\ remaining = 0
    /\ caught = "none"
    /\ s_url = ""
    /\ s_filename = ""
    /\ audio = NoAudio
    /\ fetch = "none"
    /\ times = ListTimes(<<>>)
    /\ i = 0
    /\ written = <<>>
    /\ error = "none"

\* the process has ended; the program is run again
NewProcess ==
    /\ pc = "done"
    /\ pc' = "start"
    /\ url' = ""
    /\ filename' = ""
    /\ file_size' = 0
    /\ chunks' = 0
    /\ remaining' = 0
    /\ caught' = "none"
    /\ s_url' = ""
    /\ s_filename' = ""
    /\ audio' = NoAudio
    /\ fetch' = "none"
    /\ times' = ListTimes(<<>>)
    /\ i' = 0
    /\ written' = <<>>
    /\ error' = "none"
    /\ disk' = Aged(disk)
    /\ UNCHANGED parsevars

Init ==
    /\ Fields
    /\ disk = [f \in FileNames |-> Absent]
    /\ time_str = <<>>
    /\ result = [called |-> FALSE, ok |-> FALSE, val |-> <<>>]

Next ==
    \/ Main
    \/ Resolve
    \/ DownloadOpen
    \/ DownloadChunk
    \/ DownloadFail
    \/ DownloadDone
    \/ SplitSongs
    \/ GetTimeLinks
    \/ SplitLoop
    \/ NewProcess

Spec == Init /\ [][Next]_vars

---------------------------------------------------------------------------
(* __time_str_to_tuple on its own *)

TimeStrToTupleCall ==
    /\ ~result.called
    /\ LET r == TimeStrToTuple(time_str)
       IN  result' = [called |-> TRUE, ok |-> r.ok, val |-> r.val]
    /\ UNCHANGED time_str
    /\ UNCHANGED pipevars

InitParse ==
    /\ Fields
    /\ disk = [f \in FileNames |-> Absent]
    /\ time_str \in TimeStrs
    /\ result = [called |-> FALSE, ok |-> FALSE, val |-> <<>>]

NextParse == TimeStrToTupleCall

SpecParse == InitParse /\ [][NextParse]_vars

TypeOK ==
    /\ pc \in PcValues
    /\ file_size \in 0..MaxSize
    /\ chunks \in 0..MaxSize
    /\ remaining \in (0 - MaxSize)..MaxSize
    /\ i \in 0..MaxMarkers
    /\ DOMAIN disk = FileNames
    /\ ~Exists(disk, BlankName)

---------------------------------------------------------------------------
(* Vocabulary of the properties *)

\* the name of the k-th clip, counted from 1
NthClip(k) == "clip" \o ToString(k) \o ".mp3"

\* the clips a run over n time links is to produce
ClipsUpTo(n) == { NthClip(k) : k \in 1..n }

\* the clip files of the working directory
ClipsOnDisk == { f \in DOMAIN disk : f \notin {BlankName} \cup {Mp4Name(t) : t \in Titles}
                                     /\ Exists(disk, f) }

\* every time link converts
AllConvert(l) == \A k \in 1..Len(l) : TimeStrToTuple(l[k]).ok

\* Python index of the first time link that does not convert
FirstBad(l) ==
    (CHOOSE k \in 1..Len(l) :
        /\ ~TimeStrToTuple(l[k]).ok
        /\ \A j \in 1..(k - 1) : TimeStrToTuple(l[j]).ok) - 1

\* the split loop ran over a scraped list and the process has ended
SplitEnded == pc = "done" /\ audio.loaded /\ fetch = "ok"

\* the whole pipeline ran: no exception, swallowed or not, and a page read
RunComplete == pc = "done" /\ error = "none" /\ caught = "none" /\ fetch = "ok"

Marker000 == <<"0", ":", "0", "0">>
Marker230 == <<"2", ":", "3", "0">>
Marker515 == <<"5", ":", "1", "5">>
MarkerAbc == <<"a", "b", "c">>

\* 2 or 3 colon-separated fields, each a non-empty run of digits
WellFormed(str) ==
    LET colons == { k \in 1..Len(str) : str[k] = ":" }
    IN  /\ Cardinality(colons) \in {1, 2}
        /\ \A k \in 1..Len(str) : IsDigit(str[k]) \/ str[k] = ":"
        /\ str[1] # ":" /\ str[Len(str)] # ":"
        /\ \A k \in colons : (k + 1) \notin colons

---------------------------------------------------------------------------
(* C1: when the audio file loads and every scraped time link converts,     *)
(* split_songs ends without error having written exactly one file per      *)
(* link, clip1.mp3 .. clipN.mp3 in this order, each once; with no link it  *)
(* writes nothing.  At every moment the files written so far are           *)
(* clip1.mp3 .. clip<i>.mp3 in order and are on disk.                      *)
C1_ExactlyNClipsInOrder ==
    /\ Len(written) = i
    /\ \A k \in 1..Len(written) :
          /\ written[k].name = NthClip(k)
          /\ disk[NthClip(k)] = Fresh(TRUE)
    /\ (SplitEnded /\ AllConvert(times.list)) =>
          /\ error = "none"
          /\ Len(written) = Len(times.list)

C1_Witness ==
    /\ SplitEnded
    /\ AllConvert(times.list)
    /\ Len(times.list) = 3
    /\ [k \in 1..3 |-> written[k].name] = <<"clip1.mp3", "clip2.mp3", "clip3.mp3">>

(* C2: the k-th clip written starts at the tuple of the k-th time link     *)
(* and ends at the tuple of the next link, or at None (end of file) when   *)
(* the k-th link is the last; 0:00, 2:30, 5:15 give (0,0)-(2,30),          *)
(* (2,30)-(5,15) and (5,15)-None.                                          *)
C2_ClipRanges ==
    /\ \A k \in 1..Len(written) :
          /\ written[k].start = TimeStrToTuple(times.list[k]).val
          /\ written[k].end =
                IF k = Len(times.list)
                THEN NoneEnd
                ELSE TupleEnd(TimeStrToTuple(times.list[k + 1]).val)
    /\ (pc = "done" /\ times = ListTimes(<<Marker000, Marker230, Marker515>>)) =>
          written = << [name |-> "clip1.mp3", start |-> <<0, 0>>,
                        end |-> TupleEnd(<<2, 30>>)],
                       [name |-> "clip2.mp3", start |-> <<2, 30>>,
                        end |-> TupleEnd(<<5, 15>>)],
                       [name |-> "clip3.mp3", start |-> <<5, 15>>,
                        end |-> NoneEnd] >>

C2_Witness ==
    /\ pc = "done"
    /\ times = ListTimes(<<Marker000, Marker230, Marker515>>)
    /\ Len(written) = 3

(* C3: when the page fetch of __get_time_links fails, the failure reaches  *)
(* the caller as that error: the process ends with it, and split_songs     *)
(* gets no None to run its loop on.                                        *)
C3_FetchFailureSurfaces ==
    fetch \in {"HTTPError", "URLError"} =>
        /\ pc = "done"
        /\ error = fetch
        /\ ~times.none

(* C4: when resolve or download fails, the exception leaves download_file  *)
(* and ends the run with that error; main does not go on to the Splitter.  *)
C4_DownloadFailurePropagates ==
    caught # "none" => (pc = "done" /\ error = caught)

(* C5: no call of the progress callback divides by zero, whatever the      *)
(* size of the stream.                                                     *)
C5_NoDivisionByZero == caught # "ZeroDivisionError"

(* C6: __time_str_to_tuple returns a 2- or 3-tuple of non-negative         *)
(* integers for a string of 2 or 3 numeric fields, raises for every other  *)
(* string, and returns no tuple of another length.                         *)
C6_TwoOrThreeFieldsOrError ==
    result.called =>
        /\ WellFormed(time_str) =>
              /\ result.ok
              /\ \A k \in 1..Len(result.val) : result.val[k] >= 0
        /\ ~WellFormed(time_str) => ~result.ok
        /\ result.ok => Len(result.val) \in {2, 3}

(* C7 as stated: after a complete run the clip files on disk are exactly   *)
(* the ones this run produced.                                             *)
C7_OnlyLatestClipsOnDisk ==
    RunComplete => ClipsOnDisk = ClipsUpTo(Len(times.list))

(* C7 amended: after a complete run over N time links, clip1.mp3 ..        *)
(* clipN.mp3 are on disk as this run wrote them, a file of that name from  *)
(* an earlier run being overwritten; a clip file with a higher number is   *)
(* not one this run wrote, so one left by an earlier run stays.            *)
C7_LatestClipsOverwriteByName ==
    RunComplete =>
        /\ \A f \in ClipsUpTo(Len(times.list)) : disk[f] = Fresh(TRUE)
        /\ \A f \in ClipsOnDisk \ ClipsUpTo(Len(times.list)) : disk[f].by = "prior"

C7_Witness ==
    /\ RunComplete
    /\ Len(times.list) = 2
    /\ disk["clip1.mp3"] = Fresh(TRUE)
    /\ disk["clip2.mp3"] = Fresh(TRUE)
    /\ disk["clip3.mp3"] = [by |-> "prior", whole |-> TRUE]

(* C8: no clip is written whose start offset is at or beyond the duration  *)
(* of the audio; stated for the runs whose download succeeded, which are   *)
(* enough to decide it.                                                    *)
C8_NoClipStartsPastTheEnd ==
    caught = "none" =>
        \A k \in 1..Len(written) : Cvsecs(written[k].start) < audio.duration

(* C9: the audio file the splitter has open is the file this run's         *)
(* download wrote, and wrote to the end, before the splitter opened it.    *)
C9_SplitterReadsThisRunsDownload ==
    audio.loaded => disk[s_filename] = Fresh(TRUE)

(* C10: when the first time link that does not convert has Python index    *)
(* k, the run ends with ValueError having written clip1.mp3 ..             *)
(* clip(k-1).mp3 and no more (nothing when k <= 1): clip(k).mp3 is not     *)
(* written, and the clips written are on disk as written.                  *)
C10_StopsOneClipBeforeTheBadLink ==
    (SplitEnded /\ ~AllConvert(times.list)) =>
        LET k == FirstBad(times.list)
            n == IF k <= 1 THEN 0 ELSE k - 1
        IN  /\ error = "ValueError"
            /\ [j \in 1..Len(written) |-> written[j].name]
                  = [j \in 1..n |-> NthClip(j)]
            /\ \A j \in 1..n : disk[NthClip(j)] = Fresh(TRUE)
            /\ k >= 1 => disk[NthClip(k)].by # "current"

C10_Witness ==
    /\ SplitEnded
    /\ Len(times.list) = 3
    /\ ~AllConvert(times.list)
    /\ FirstBad(times.list) = 2
    /\ error = "ValueError"
    /\ Len(written) = 1
    /\ disk["clip1.mp3"] = Fresh(TRUE)

====
